---- MODULE Spec2Model ----
(***************************************************************************)
(* Oriented matroids of sign_vectors/oriented_matroids.py: the closure of  *)
(* a cocircuit list under composition (covectors_from_cocircuits), the     *)
(* tope extractor (topes_from_cocircuits), the face enumeration            *)
(* (lower_faces, face_enumeration, covectors_from_topes,                   *)
(* cocircuits_from_topes) and the functions that start from a matrix       *)
(* (cocircuits_from_matrix, topes_from_matrix, covectors_from_matrix).     *)
(*                                                                         *)
(* A sign vector of length n is a sequence over {-1, 0, 1}.  Python lists  *)
(* are sequences; Python's index i is index i+1 here.                      *)
(***************************************************************************)
EXTENDS Integers, Sequences, FiniteSets, TLC

\* Bounds of the model: the length n of the sign vectors of the enumerated
\* inputs, and the number of sign vectors an enumerated list is built from.
Dim == 2
MaxVectors == 2

(***************************************************************************)
(* Sign vectors and their algebra (class SignVector).                      *)
(***************************************************************************)
Signs == {-1, 0, 1}

SignVectors(n) == [1..n -> Signs]

zero_sign_vector(n) == [i \in 1..n |-> 0]

length(X) == Len(X)

support(X) == {i \in 1..Len(X) : X[i] # 0}

zero_support(X) == {i \in 1..Len(X) : X[i] = 0}

\* X.compose(Y): X[i] where it is nonzero, else Y[i].
compose(X, Y) == [i \in 1..Len(X) |-> IF X[i] # 0 THEN X[i] ELSE Y[i]]

\* X <= Y, the conformal relation.
conformal(X, Y) == \A i \in 1..Len(X) : X[i] = 0 \/ X[i] = Y[i]

\* -X
negative(X) == [i \in 1..Len(X) |-> 0 - X[i]]

\* X.reverse_signs_in(D)
reverse_signs_in(X, D) == [i \in 1..Len(X) |-> IF i \in D THEN 0 - X[i] ELSE X[i]]

\* X == 0 (the comparison of a sign vector with the integer 0).
is_zero(X) == \A i \in 1..Len(X) : X[i] = 0

(***************************************************************************)
(* Python list helpers.                                                    *)
(***************************************************************************)
\* Z in L
In(Z, L) == \E k \in 1..Len(L) : L[k] = Z

ToSet(L) == {L[k] : k \in 1..Len(L)}

\* (variant: covectors_new.pop() reads the last element and leaves the list
\* as it was)
Front_keeps_all(L) == L

\* L[:-1], what L.pop() leaves.
Front(L) == SubSeq(L, 1, Len(L) - 1)

\* L[-1], what L.pop() returns.
Last(L) == L[Len(L)]

\* L without repetitions, each value at its first position: what appending
\* under "if Z not in L" builds.
Dedup(L) ==
    LET keep == SelectSeq([k \in 1..Len(L) |-> k],
                          LAMBDA k : \A j \in 1..(k - 1) : L[j] # L[k])
    IN  [i \in 1..Len(keep) |-> L[keep[i]]]

RECURSIVE Flatten(_)
Flatten(LL) == IF LL = <<>> THEN <<>> ELSE Head(LL) \o Flatten(Tail(LL))

(***************************************************************************)
(* The lists a caller passes.                                              *)
(***************************************************************************)
\* sign_vector(v): the signs of the components of a numeric vector.
sign_vector(v) == [i \in 1..Len(v) |-> IF v[i] > 0 THEN 1 ELSE IF v[i] < 0 THEN -1 ELSE 0]

\* (variant: a sign vector that is in the list already is not appended)
cocircuits_from_matrix_merged(evs) ==
    Dedup([k \in 1..Len(evs) |-> sign_vector(evs[k])]
          \o [k \in 1..Len(evs) |-> sign_vector(negative(evs[k]))])

\* cocircuits_from_matrix, given the elementary vectors evs of the matrix.
cocircuits_from_matrix(evs) ==
    [k \in 1..Len(evs) |-> sign_vector(evs[k])]
    \o [k \in 1..Len(evs) |-> sign_vector(negative(evs[k]))]

\* The cocircuit lists of the module's doctests.
ccA == << <<-1,-1,0>>, <<-1,0,-1>>, <<0,-1,1>>, <<1,1,0>>, <<1,0,1>>, <<0,1,-1>> >>

ccA_kernel == << <<-1,1,1>>, <<1,-1,-1>> >>

ccB == << <<1,0,0,0>>, <<0,-1,-1,0>>, <<0,-1,0,-1>>, <<0,0,-1,1>>,
          <<-1,0,0,0>>, <<0,1,1,0>>, <<0,1,0,1>>, <<0,0,1,-1>> >>

DocExamples == {ccA, ccA_kernel, ccB}

\* All lists of at most m sign vectors of length n.
Lists(n, m) == UNION {[1..k -> SignVectors(n)] : k \in 0..m}

Inputs ==
    Lists(Dim, MaxVectors)
    \cup {cocircuits_from_matrix(evs) : evs \in Lists(Dim, MaxVectors)}
    \cup DocExamples

(***************************************************************************)
(* State: the caller's list, the position of the program, and the locals   *)
(* of each function.                                                       *)
(***************************************************************************)
VARIABLES
    evs,        \* the elementary vectors of the caller's matrix
    cfm,        \* covectors_from_matrix: its arguments, position and result
    arg,        \* the list the caller holds (cocircuits, or one stratum)
    pc,         \* "idle", the name of the running function, or "raised"
    error,      \* the exception that reached the caller, NoError if none
    returned,   \* the functions that have returned
    cfc,        \* covectors_from_cocircuits: covectors, covectors_new
    tfc,        \* topes_from_cocircuits: covectors, covectors_new, topes
    faces,      \* face_enumeration: faces
    W_          \* lower_faces: its returned list

vars == <<evs, cfm, arg, pc, error, returned, cfc, tfc, faces, W_>>

NoError == [exception |-> "none", message |-> "", raised_in |-> "none"]

NoFrame == [covectors |-> <<>>, covectors_new |-> <<>>]

NoTopesFrame == [covectors |-> <<>>, covectors_new |-> <<>>, topes |-> <<>>]

\* Python's None, the default of the parameter algorithm.
None == "None"

\* covectors_from_matrix has not been called.
NoMatrixCall ==
    [passed |-> None, algorithm |-> None, separate |-> FALSE,
     stage |-> "not called", flat |-> <<>>, strata |-> <<>>]

\* The caller holds a list of sign vectors and no matrix.
Init ==
    /\ evs = <<>>
    /\ cfm = NoMatrixCall
    /\ arg \in Inputs
    /\ pc = "idle"
    /\ error = NoError
    /\ returned = {}
    /\ cfc = NoFrame
    /\ tfc = NoTopesFrame
    /\ faces = <<>>
    /\ W_ = <<>>

\* raise ValueError(message) in function fn: the exception surfaces to the
\* caller, which stops.
Raise(fn, message) ==
    /\ pc' = "raised"
    /\ error' = [exception |-> "ValueError", message |-> message, raised_in |-> fn]

(***************************************************************************)
(* sign_vectors.utility                                                    *)
(***************************************************************************)
\* loops(W): the indices at which every member of W is zero.
loops(W) == {e \in 1..length(W[1]) : \A k \in 1..Len(W) : W[k][e] = 0}

\* classes_same_support(W): W grouped by support, the classes in the order
\* in which their supports first occur in W.
classes_same_support(W) ==
    LET supports == Dedup([k \in 1..Len(W) |-> support(W[k])])
    IN  [j \in 1..Len(supports) |->
            SelectSeq(W, LAMBDA X : support(X) = supports[j])]

\* Indices e and f of the common support vary rigidly in the class Wj: their
\* signs are equal in every member, or opposite in every member.
is_parallel(Wj, e, f) ==
    \/ \A k \in 1..Len(Wj) : Wj[k][e] = Wj[k][f]
    \/ \A k \in 1..Len(Wj) : Wj[k][e] = 0 - Wj[k][f]

\* parallel_classes(Wj): the partition of the common support of the class Wj
\* into parallel classes, ordered by their first index.
parallel_classes(Wj) ==
    LET S == support(Wj[1])
        firsts == {e \in S : \A f \in S : is_parallel(Wj, e, f) => e <= f}
        ordered == SelectSeq([i \in 1..length(Wj[1]) |-> i], LAMBDA i : i \in firsts)
    IN  [c \in 1..Len(ordered) |-> {f \in S : is_parallel(Wj, ordered[c], f)}]

(***************************************************************************)
(* covectors_from_cocircuits                                               *)
(***************************************************************************)
\* (variant: Z is appended to covectors only)
discover_no_push(Z, f) == [f EXCEPT !.covectors = Append(@, Z)]

\* covectors.append(Z); covectors_new.append(Z)
discover(Z, f) ==
    [f EXCEPT !.covectors = Append(@, Z), !.covectors_new = Append(@, Z)]

\* (variant: the guard reads "not Y <= X")
expand_one_swapped_guard(X, Y, f) ==
    IF ~conformal(Y, X)
    THEN LET Z == compose(X, Y)
         IN  IF ~In(Z, f.covectors) THEN discover(Z, f) ELSE f
    ELSE f

\* (variant: without the test "if Z not in covectors")
expand_one_untested(X, Y, f) ==
    IF ~conformal(X, Y) THEN discover(compose(X, Y), f) ELSE f

\* The body of "for X in cocircuits" for one X.
expand_one(X, Y, f) ==
    IF ~conformal(X, Y)
    THEN LET Z == compose(X, Y)
         IN  IF ~In(Z, f.covectors) THEN discover(Z, f) ELSE f
    ELSE f

\* "for X in cocircuits: ..." from the k-th cocircuit on; g is the frame
\* after the k-th cocircuit.
RECURSIVE expand(_, _, _, _)
expand(cocircuits, Y, k, f) ==
    IF k > Len(cocircuits) THEN f
    ELSE CHOOSE r \in {expand(cocircuits, Y, k + 1, g) :
                          g \in {expand_one(cocircuits[k], Y, f)}} : TRUE

call_covectors_from_cocircuits ==
    /\ pc = "idle"
    /\ "covectors_from_cocircuits" \notin returned
    /\ IF arg = <<>>
       THEN Raise("covectors_from_cocircuits", "List of cocircuits is empty.")
            /\ UNCHANGED cfc
       ELSE LET n == length(arg[1])
            IN  /\ cfc' = [covectors |-> <<zero_sign_vector(n)>>,
                           covectors_new |-> <<zero_sign_vector(n)>>]
                /\ pc' = "covectors_from_cocircuits"
                /\ UNCHANGED error
    /\ UNCHANGED <<evs, cfm, arg, returned, tfc, faces, W_>>

\* One iteration of "while covectors_new != []": Y = covectors_new.pop(),
\* then the for loop over the cocircuits.
loop_covectors_from_cocircuits ==
    /\ pc = "covectors_from_cocircuits"
    /\ cfc.covectors_new # <<>>
    /\ LET Y == Last(cfc.covectors_new)
       IN  cfc' = expand(arg, Y, 1, [cfc EXCEPT !.covectors_new = Front(@)])
    /\ UNCHANGED <<evs, cfm, arg, pc, error, returned, tfc, faces, W_>>

\* return covectors
return_covectors_from_cocircuits ==
    /\ pc = "covectors_from_cocircuits"
    /\ cfc.covectors_new = <<>>
    /\ pc' = "idle"
    /\ returned' = returned \cup {"covectors_from_cocircuits"}
    /\ UNCHANGED <<evs, cfm, arg, error, cfc, tfc, faces, W_>>

(***************************************************************************)
(* topes_from_cocircuits                                                   *)
(***************************************************************************)
\* (variant: a vector that is no tope is not appended to covectors_new)
discover_tope_no_push(Z, E0, f) ==
    IF zero_support(Z) = E0
    THEN [f EXCEPT !.covectors = Append(@, Z), !.topes = Append(@, Z)]
    ELSE [f EXCEPT !.covectors = Append(@, Z)]

\* (variant: the test reads "Z.zero_support() != E0")
discover_tope_inverted(Z, E0, f) ==
    IF zero_support(Z) # E0
    THEN [f EXCEPT !.covectors = Append(@, Z), !.topes = Append(@, Z)]
    ELSE [f EXCEPT !.covectors = Append(@, Z), !.covectors_new = Append(@, Z)]

\* covectors.append(Z), then topes.append(Z) if Z.zero_support() == E0,
\* else covectors_new.append(Z).
discover_tope(Z, E0, f) ==
    IF zero_support(Z) = E0
    THEN [f EXCEPT !.covectors = Append(@, Z), !.topes = Append(@, Z)]
    ELSE [f EXCEPT !.covectors = Append(@, Z), !.covectors_new = Append(@, Z)]

expand_one_tope(X, Y, E0, f) ==
    IF ~conformal(X, Y)
    THEN LET Z == compose(X, Y)
         IN  IF ~In(Z, f.covectors) THEN discover_tope(Z, E0, f) ELSE f
    ELSE f

RECURSIVE expand_topes(_, _, _, _, _)
expand_topes(cocircuits, Y, E0, k, f) ==
    IF k > Len(cocircuits) THEN f
    ELSE CHOOSE r \in {expand_topes(cocircuits, Y, E0, k + 1, g) :
                          g \in {expand_one_tope(cocircuits[k], Y, E0, f)}} : TRUE

call_topes_from_cocircuits ==
    /\ pc = "idle"
    /\ "topes_from_cocircuits" \notin returned
    /\ IF arg = <<>>
       THEN Raise("topes_from_cocircuits", "List is empty.") /\ UNCHANGED tfc
       ELSE LET n == length(arg[1])
            IN  /\ tfc' = [covectors |-> <<zero_sign_vector(n)>>,
                           covectors_new |-> <<zero_sign_vector(n)>>,
                           topes |-> <<>>]
                /\ pc' = "topes_from_cocircuits"
                /\ UNCHANGED error
    /\ UNCHANGED <<evs, cfm, arg, returned, cfc, faces, W_>>

loop_topes_from_cocircuits ==
    /\ pc = "topes_from_cocircuits"
    /\ tfc.covectors_new # <<>>
    /\ LET Y == Last(tfc.covectors_new)
       IN  tfc' = expand_topes(arg, Y, loops(arg), 1,
                               [tfc EXCEPT !.covectors_new = Front(@)])
    /\ UNCHANGED <<evs, cfm, arg, pc, error, returned, cfc, faces, W_>>

\* return topes
return_topes_from_cocircuits ==
    /\ pc = "topes_from_cocircuits"
    /\ tfc.covectors_new = <<>>
    /\ pc' = "idle"
    /\ returned' = returned \cup {"topes_from_cocircuits"}
    /\ UNCHANGED <<evs, cfm, arg, error, cfc, tfc, faces, W_>>

(***************************************************************************)
(* lower_faces                                                             *)
(***************************************************************************)
\* (variant: the signs on D are reversed instead of set to zero)
zero_on_reversed(X, D, n) == [i \in 1..n |-> IF i \in D THEN 0 - X[i] ELSE X[i]]

\* Z = sign_vector([0 if i in D else X[i] for i in range(n)])
zero_on(X, D, n) == [i \in 1..n |-> IF i \in D THEN 0 ELSE X[i]]

\* (variant: without the test "X.reverse_signs_in(D) in Wj")
has_lower_face_unchecked(X, D, Wj) == \E i \in D : X[i] # 0

\* The test of the body of "for D in PC" for one X and one D: "for i in D"
\* runs to the first i with X[i] != 0, tests X.reverse_signs_in(D) in Wj there
\* and breaks.
has_lower_face(X, D, Wj) ==
    (\E i \in D : X[i] # 0) /\ In(reverse_signs_in(X, D), Wj)

\* The vectors Z that "for X in Wj: for D in PC: ..." reaches, in the order
\* of the two loops.
lower_faces_of_class(Wj, n) ==
    LET PC == parallel_classes(Wj)
        pairs == [k \in 1..(Len(Wj) * Len(PC)) |->
                    <<((k - 1) \div Len(PC)) + 1, ((k - 1) % Len(PC)) + 1>>]
        hits == SelectSeq(pairs, LAMBDA p : has_lower_face(Wj[p[1]], PC[p[2]], Wj))
    IN  [k \in 1..Len(hits) |-> zero_on(Wj[hits[k][1]], PC[hits[k][2]], n)]

\* (variant: the list is not split into classes of the same support)
lower_faces_one_class(covectors) ==
    Dedup(lower_faces_of_class(covectors, length(covectors[1])))

\* (variant: without the test "if Z not in W_")
lower_faces_no_dedup(covectors) ==
    LET n == length(covectors[1])
        classes == classes_same_support(covectors)
    IN  Flatten([j \in 1..Len(classes) |-> lower_faces_of_class(classes[j], n)])

\* lower_faces(covectors) for a nonempty list: the vectors Z of all classes
\* in the order of "for Wj in classes_same_support(covectors)", each
\* appended to W_ unless it is in W_ already.
lower_faces(covectors) ==
    LET n == length(covectors[1])
        classes == classes_same_support(covectors)
    IN  Dedup(Flatten([j \in 1..Len(classes) |-> lower_faces_of_class(classes[j], n)]))

\* A direct call of lower_faces.
call_lower_faces ==
    /\ pc = "idle"
    /\ "lower_faces" \notin returned
    /\ IF arg = <<>>
       THEN Raise("lower_faces", "List is empty.") /\ UNCHANGED <<W_, returned>>
       ELSE /\ W_' = lower_faces(arg)
            /\ returned' = returned \cup {"lower_faces"}
            /\ UNCHANGED <<pc, error>>
    /\ UNCHANGED <<evs, cfm, arg, cfc, tfc, faces>>

(***************************************************************************)
(* face_enumeration                                                        *)
(***************************************************************************)
\* (variant: only "faces[0] != []")
more_faces_until_empty(fs) == fs[1] # <<>>

\* (variant: only "faces[0] != [0]")
more_faces_until_zero(fs) == ~(Len(fs[1]) = 1 /\ is_zero(fs[1][1]))

\* faces[0] != [0] and faces[0] != []
more_faces(fs) ==
    /\ ~(Len(fs[1]) = 1 /\ is_zero(fs[1][1]))
    /\ fs[1] # <<>>

\* (variant: the lower faces of the given stratum, faces[-1], are inserted)
insert_lower_faces_of_last(fs) == <<lower_faces(Last(fs))>> \o fs

\* faces.insert(0, lower_faces(faces[0]))
insert_lower_faces(fs) == <<lower_faces(fs[1])>> \o fs

\* The entry of face_enumeration(covectors).
enter_face_enumeration(covectors) ==
    IF covectors = <<>>
    THEN Raise("face_enumeration", "List is empty.") /\ UNCHANGED faces
    ELSE /\ faces' = <<covectors>>
         /\ pc' = "face_enumeration"
         /\ UNCHANGED error

\* face_enumeration(arg): the caller's list as one stratum.
call_face_enumeration ==
    /\ pc = "idle"
    /\ "face_enumeration" \notin returned
    /\ enter_face_enumeration(arg)
    /\ UNCHANGED <<evs, cfm, arg, returned, cfc, tfc, W_>>

\* covectors_from_topes(topes): face_enumeration of the topes that
\* topes_from_cocircuits returned.
call_covectors_from_topes ==
    /\ pc = "idle"
    /\ "topes_from_cocircuits" \in returned
    /\ "face_enumeration" \notin returned
    /\ enter_face_enumeration(tfc.topes)
    /\ UNCHANGED <<evs, cfm, arg, returned, cfc, tfc, W_>>

\* One iteration of the while loop; lower_faces raises on an empty list.
loop_face_enumeration ==
    /\ pc = "face_enumeration"
    /\ more_faces(faces)
    /\ IF faces[1] = <<>>
       THEN Raise("lower_faces", "List is empty.") /\ UNCHANGED faces
       ELSE /\ faces' = insert_lower_faces(faces)
            /\ UNCHANGED <<pc, error>>
    /\ UNCHANGED <<evs, cfm, arg, returned, cfc, tfc, W_>>

\* return faces
return_face_enumeration ==
    /\ pc = "face_enumeration"
    /\ ~more_faces(faces)
    /\ pc' = "idle"
    /\ returned' = returned \cup {"face_enumeration"}
    /\ UNCHANGED <<evs, cfm, arg, error, cfc, tfc, faces, W_>>

\* (variant: the first element of faces, faces[0], is returned)
cocircuits_from_topes_lowest(fs) == fs[1]

\* cocircuits_from_topes(topes), given fs = face_enumeration(topes):
\* "return face_enumeration(topes)[1]".
cocircuits_from_topes(fs) == fs[2]

(***************************************************************************)
(* The session of the module docstring: the caller holds a list of         *)
(* cocircuits and calls covectors_from_cocircuits on it, then              *)
(* topes_from_cocircuits, then covectors_from_topes on the topes.  An      *)
(* exception ends the session.                                             *)
(***************************************************************************)
Next ==
    \/ returned = {} /\ call_covectors_from_cocircuits
    \/ loop_covectors_from_cocircuits
    \/ return_covectors_from_cocircuits
    \/ returned = {"covectors_from_cocircuits"} /\ call_topes_from_cocircuits
    \/ loop_topes_from_cocircuits
    \/ return_topes_from_cocircuits
    \/ call_covectors_from_topes
    \/ loop_face_enumeration
    \/ return_face_enumeration

Spec == Init /\ [][Next]_vars

(***************************************************************************)
(* The two closures of the session, covectors_from_cocircuits and then     *)
(* topes_from_cocircuits, under the scheduling of Python: the interpreter  *)
(* goes on running the function that was called until it returns or        *)
(* raises.                                                                 *)
(***************************************************************************)
NextClosure ==
    \/ returned = {} /\ call_covectors_from_cocircuits
    \/ loop_covectors_from_cocircuits
    \/ return_covectors_from_cocircuits
    \/ returned = {"covectors_from_cocircuits"} /\ call_topes_from_cocircuits
    \/ loop_topes_from_cocircuits
    \/ return_topes_from_cocircuits

SpecClosure == Init /\ [][NextClosure]_vars

FairClosure == SpecClosure /\ WF_vars(NextClosure)

(***************************************************************************)
(* The two closures with another removal from the frontier: the loops of   *)
(* covectors_from_cocircuits and topes_from_cocircuits as they are, but    *)
(* with covectors_new.pop(k) for any index k in place of                   *)
(* covectors_new.pop().  The last index is the code's removal (last in,    *)
(* first out), the first index is first in, first out.                     *)
(***************************************************************************)
\* (variant: the k-th element is read and the last one is taken out)
remove_at_last(L, k) == Front(L)

\* What L.pop(k - 1) leaves.
remove_at(L, k) == SubSeq(L, 1, k - 1) \o SubSeq(L, k + 1, Len(L))

loop_covectors_any_order ==
    /\ pc = "covectors_from_cocircuits"
    /\ cfc.covectors_new # <<>>
    /\ \E k \in 1..Len(cfc.covectors_new) :
          cfc' = expand(arg, cfc.covectors_new[k], 1,
                        [cfc EXCEPT !.covectors_new = remove_at(@, k)])
    /\ UNCHANGED <<evs, cfm, arg, pc, error, returned, tfc, faces, W_>>

loop_topes_any_order ==
    /\ pc = "topes_from_cocircuits"
    /\ tfc.covectors_new # <<>>
    /\ \E k \in 1..Len(tfc.covectors_new) :
          tfc' = expand_topes(arg, tfc.covectors_new[k], loops(arg), 1,
                              [tfc EXCEPT !.covectors_new = remove_at(@, k)])
    /\ UNCHANGED <<evs, cfm, arg, pc, error, returned, cfc, faces, W_>>

NextAnyOrder ==
    \/ returned = {} /\ call_covectors_from_cocircuits
    \/ loop_covectors_any_order
    \/ return_covectors_from_cocircuits
    \/ returned = {} /\ call_topes_from_cocircuits
    \/ loop_topes_any_order
    \/ return_topes_from_cocircuits

\* The caller's lists for these loops: the lists of at most MaxVectors sign
\* vectors, and the two cocircuit lists of the matrix A of the doctests.
InitAnyOrder ==
    /\ evs = <<>>
    /\ cfm = NoMatrixCall
    /\ arg \in Lists(Dim, MaxVectors) \cup {ccA, ccA_kernel}
    /\ pc = "idle"
    /\ error = NoError
    /\ returned = {}
    /\ cfc = NoFrame
    /\ tfc = NoTopesFrame
    /\ faces = <<>>
    /\ W_ = <<>>

SpecAnyOrder == InitAnyOrder /\ [][NextAnyOrder]_vars

(***************************************************************************)
(* One call: the caller holds any list of sign vectors of one length and   *)
(* calls one of the four functions on it.                                  *)
(***************************************************************************)
NextCall ==
    \/ returned = {} /\ call_covectors_from_cocircuits
    \/ loop_covectors_from_cocircuits
    \/ return_covectors_from_cocircuits
    \/ returned = {} /\ call_topes_from_cocircuits
    \/ loop_topes_from_cocircuits
    \/ return_topes_from_cocircuits
    \/ returned = {} /\ call_lower_faces
    \/ returned = {} /\ call_face_enumeration
    \/ loop_face_enumeration
    \/ return_face_enumeration

SpecCall == Init /\ [][NextCall]_vars

(***************************************************************************)
(* What the properties speak about.                                        *)
(***************************************************************************)
\* fn has returned to the caller, and no function is running.
has_returned(fn) == pc = "idle" /\ fn \in returned

\* The set a returned list holds.
Covectors == ToSet(cfc.covectors)

Topes == ToSet(tfc.topes)

Cocircuits == ToSet(arg)

n_arg == length(arg[1])

\* All finite compositions X_k o ... o X_1 of members of C, together with
\* the zero vector (the empty composition): the least set that holds the zero
\* vector and, with Y, every X o Y for X in C.
RECURSIVE compositions_from(_, _)
compositions_from(C, S) ==
    LET T == S \cup {compose(X, Y) : X \in C, Y \in S}
    IN  IF T = S THEN S ELSE compositions_from(C, T)

AllCompositions(C, n) == compositions_from(C, {zero_sign_vector(n)})

\* "cocircuits -- a list of cocircuits of an oriented matroid": the set C of
\* sign vectors is the set of cocircuits of an oriented matroid.  It holds no
\* zero vector, it holds -X with X, two members with comparable supports are
\* equal or opposite, and two members X # -Y that differ in sign at e
\* eliminate e: some member Z is zero at e and has, at every index, a sign of
\* X or of Y.
separates(X, Y, e) == X[e] # 0 /\ Y[e] = 0 - X[e]

eliminates(Z, X, Y, e) ==
    /\ Z[e] = 0
    /\ \A i \in 1..Len(Z) : Z[i] = 0 \/ Z[i] = X[i] \/ Z[i] = Y[i]

is_cocircuit_set(C) ==
    /\ C # {}
    /\ \A X \in C : ~is_zero(X) /\ negative(X) \in C
    /\ \A X, Y \in C : support(X) \subseteq support(Y) => (X = Y \/ X = negative(Y))
    /\ \A X, Y \in C : X # negative(Y) =>
          \A e \in 1..Len(X) : separates(X, Y, e) =>
             \E Z \in C : eliminates(Z, X, Y, e)

\* The caller's list holds the cocircuits of an oriented matroid.
OrientedMatroid == arg # <<>> /\ is_cocircuit_set(Cocircuits)

(***************************************************************************)
(* cocircuits_from_matrix                                                  *)
(***************************************************************************)
\* The entries of the vectors that elementary_vectors is taken to return
\* here: some numbers of either sign, not signs only.
Entries == {-2, -1, 0, 3}

\* All lists of at most m vectors of length n with these entries.
VectorLists(n, m) == UNION {[1..k -> [1..n -> Entries]] : k \in 0..m}

\* evs = elementary_vectors(M, kernel=kernel), then the return of the list.
call_cocircuits_from_matrix ==
    /\ pc = "idle"
    /\ "cocircuits_from_matrix" \notin returned
    /\ arg' = cocircuits_from_matrix(evs)
    /\ returned' = returned \cup {"cocircuits_from_matrix"}
    /\ UNCHANGED <<evs, cfm, pc, error, cfc, tfc, faces, W_>>

\* The caller holds a matrix, given by the vectors that elementary_vectors
\* returns for it, and calls cocircuits_from_matrix on it.
InitCocircuits ==
    /\ evs \in VectorLists(Dim, MaxVectors)
    /\ cfm = NoMatrixCall
    /\ arg = <<>>
    /\ pc = "idle"
    /\ error = NoError
    /\ returned = {}
    /\ cfc = NoFrame
    /\ tfc = NoTopesFrame
    /\ faces = <<>>
    /\ W_ = <<>>

NextCocircuits == call_cocircuits_from_matrix

SpecCocircuits == InitCocircuits /\ [][NextCocircuits]_vars

(***************************************************************************)
(* covectors_from_matrix                                                   *)
(***************************************************************************)
\* What a caller passes as algorithm: the default, the two names of the
\* face enumeration, and two strings that name no algorithm.
Algorithms == {None, "face_enumeration", "fe", "FE", "cocircuits"}

\* The matrix of the doctests by its elementary vectors: the vectors whose
\* signs are the first half of the documented cocircuits.
DocElementaryVectors ==
    {SubSeq(ccA, 1, 3), SubSeq(ccA_kernel, 1, 1), SubSeq(ccB, 1, 4)}

\* elementary_vectors(M, kernel=kernel): one vector for each pair of opposite
\* cocircuits of the oriented matroid of the matrix, none for a matrix whose
\* space is zero.
ElementaryVectors ==
    {vs \in Lists(Dim, MaxVectors) :
        \/ vs = <<>>
        \/ /\ \A i, j \in 1..Len(vs) : i # j => support(vs[i]) # support(vs[j])
           /\ is_cocircuit_set(ToSet(cocircuits_from_matrix(vs)))}
    \cup DocElementaryVectors

\* (variant: separate is not looked at when no algorithm is given)
direct_closure_whatever_separate(algorithm, separate) == algorithm = None

\* "if algorithm is None:" with separate false: the closure is returned.
direct_closure(algorithm, separate) == algorithm = None /\ ~separate

\* The local algorithm after "if algorithm is None: if separate:
\* algorithm = 'face_enumeration'".
fallback(algorithm, separate) ==
    IF algorithm = None /\ separate THEN "face_enumeration" ELSE algorithm

\* covectors_from_topes(topes, separate), given fs = face_enumeration(topes):
\* the strata if separate, else the flattened strata.  The two kinds of
\* result are two fields.
covectors_from_topes(fs, separate) ==
    IF separate
    THEN [flat |-> <<>>, strata |-> fs]
    ELSE [flat |-> Flatten(fs), strata |-> <<>>]

\* The call of covectors_from_matrix up to the call of the function it
\* dispatches to: the choice of the branch, and cocircuits_from_matrix(M) of
\* the branch, or the ValueError of the last branch.
call_covectors_from_matrix ==
    /\ pc = "idle"
    /\ cfm.stage = "not called"
    /\ IF direct_closure(cfm.algorithm, cfm.separate)
       THEN /\ arg' = cocircuits_from_matrix(evs)
            /\ cfm' = [cfm EXCEPT !.stage = "covectors_from_cocircuits"]
            /\ UNCHANGED <<pc, error>>
       ELSE LET algorithm == fallback(cfm.algorithm, cfm.separate)
            IN  IF algorithm \in {"face_enumeration", "fe"}
                THEN /\ arg' = cocircuits_from_matrix(evs)
                     /\ cfm' = [cfm EXCEPT !.algorithm = algorithm,
                                           !.stage = "covectors_from_topes"]
                     /\ UNCHANGED <<pc, error>>
                ELSE /\ Raise("covectors_from_matrix",
                              "no algorithm '" \o algorithm \o "'")
                     /\ UNCHANGED <<arg, cfm>>
    /\ UNCHANGED <<evs, returned, cfc, tfc, faces, W_>>

\* covectors_from_cocircuits(cocircuits_from_matrix(M, kernel=kernel))
closure_of_matrix ==
    /\ cfm.stage = "covectors_from_cocircuits"
    /\ returned = {}
    /\ call_covectors_from_cocircuits

\* topes_from_matrix(M, kernel=kernel)
call_topes_from_matrix ==
    /\ cfm.stage = "covectors_from_topes"
    /\ returned = {}
    /\ call_topes_from_cocircuits

\* covectors_from_topes(topes_from_matrix(M, kernel=kernel), separate)
face_enumeration_of_matrix ==
    /\ cfm.stage = "covectors_from_topes"
    /\ call_covectors_from_topes

\* The two returns of covectors_from_matrix.
return_covectors_from_matrix ==
    /\ pc = "idle"
    /\ \/ /\ cfm.stage = "covectors_from_cocircuits"
          /\ "covectors_from_cocircuits" \in returned
          /\ cfm' = [cfm EXCEPT !.stage = "returned", !.flat = cfc.covectors]
       \/ /\ cfm.stage = "covectors_from_topes"
          /\ "face_enumeration" \in returned
          /\ LET r == covectors_from_topes(faces, cfm.separate)
             IN  cfm' = [cfm EXCEPT !.stage = "returned",
                                    !.flat = r.flat, !.strata = r.strata]
    /\ returned' = returned \cup {"covectors_from_matrix"}
    /\ UNCHANGED <<evs, arg, pc, error, cfc, tfc, faces, W_>>

\* The caller holds a matrix and calls covectors_from_matrix on it once,
\* with some algorithm and some separate.
InitMatrix ==
    /\ evs \in ElementaryVectors
    /\ cfm \in {[NoMatrixCall EXCEPT !.passed = a, !.algorithm = a, !.separate = s] :
                   a \in Algorithms, s \in BOOLEAN}
    /\ arg = <<>>
    /\ pc = "idle"
    /\ error = NoError
    /\ returned = {}
    /\ cfc = NoFrame
    /\ tfc = NoTopesFrame
    /\ faces = <<>>
    /\ W_ = <<>>

NextMatrix ==
    \/ call_covectors_from_matrix
    \/ closure_of_matrix
    \/ loop_covectors_from_cocircuits
    \/ return_covectors_from_cocircuits
    \/ call_topes_from_matrix
    \/ loop_topes_from_cocircuits
    \/ return_topes_from_cocircuits
    \/ face_enumeration_of_matrix
    \/ loop_face_enumeration
    \/ return_face_enumeration
    \/ return_covectors_from_matrix

SpecMatrix == InitMatrix /\ [][NextMatrix]_vars

(***************************************************************************)
(* Properties.                                                             *)
(***************************************************************************)

\* C1 (closure): the list that covectors_from_cocircuits returns for a
\* nonempty list of cocircuits is closed under composition with the
\* cocircuits: with Y it holds compose(X, Y) for every cocircuit X.
C1_Closure ==
    has_returned("covectors_from_cocircuits") =>
        \A Y \in Covectors : \A X \in Cocircuits : compose(X, Y) \in Covectors

\* A returned list in which the composition of a cocircuit X with a covector
\* Y is a third vector, neither X nor Y.
C1_Witness ==
    /\ has_returned("covectors_from_cocircuits")
    /\ \E Y \in Covectors : \E X \in Cocircuits :
          /\ compose(X, Y) \notin {X, Y}
          /\ compose(X, Y) \in Covectors

\* C2 (exactness): the set that covectors_from_cocircuits returns is exactly
\* the set of all finite compositions of the cocircuits together with the
\* zero vector: none is missing and nothing else is returned.
C2_AllCompositions ==
    has_returned("covectors_from_cocircuits") =>
        Covectors = AllCompositions(Cocircuits, n_arg)

\* A returned set that holds a composition which is no cocircuit and not the
\* zero vector, and that leaves some sign vector out.
C2_Witness ==
    /\ has_returned("covectors_from_cocircuits")
    /\ \E Z \in Covectors : ~is_zero(Z) /\ Z \notin Cocircuits
    /\ SignVectors(n_arg) \ Covectors # {}

\* C3 (minimum): the zero vector is in the list covectors_from_cocircuits
\* returns, and it is the lowest stratum of the face enumeration of the topes
\* of an oriented matroid (covectors_from_topes); it is conformally below
\* every returned covector.
C3_Minimum ==
    /\ has_returned("covectors_from_cocircuits") =>
          /\ zero_sign_vector(n_arg) \in Covectors
          /\ \A Y \in Covectors : conformal(zero_sign_vector(n_arg), Y)
    /\ (has_returned("face_enumeration") /\ OrientedMatroid) =>
          /\ faces[1] = <<zero_sign_vector(n_arg)>>
          /\ \A Y \in ToSet(Flatten(faces)) : conformal(zero_sign_vector(n_arg), Y)

\* Both paths have returned for an oriented matroid of rank 2 or more: the
\* face enumeration has strata between the zero vector and the topes.
C3_Witness ==
    /\ has_returned("covectors_from_cocircuits")
    /\ has_returned("face_enumeration")
    /\ OrientedMatroid
    /\ Len(faces) >= 3
    /\ zero_sign_vector(n_arg) \in Covectors
    /\ faces[1] = <<zero_sign_vector(n_arg)>>

\* The frames and results as they are before any call.
NoResult ==
    /\ returned = {}
    /\ cfc = NoFrame
    /\ tfc = NoTopesFrame
    /\ faces = <<>>
    /\ W_ = <<>>

\* C4 (empty-input error): each of covectors_from_cocircuits,
\* topes_from_cocircuits, lower_faces and face_enumeration, called with an
\* empty list, raises ValueError at once and returns nothing; called with a
\* nonempty list, none of them raises (face_enumeration passes no empty
\* stratum to lower_faces).
C4_EmptyInputError ==
    /\ arg = <<>> =>
          /\ pc \in {"idle", "raised"}
          /\ NoResult
          /\ pc = "raised" => error.exception = "ValueError"
    /\ arg # <<>> => (pc # "raised" /\ error = NoError)

\* face_enumeration has raised on the empty list.
C4_Witness ==
    /\ arg = <<>>
    /\ pc = "raised"
    /\ error.exception = "ValueError"
    /\ error.raised_in = "face_enumeration"

\* The set of all sign vectors that face_enumeration returned, as
\* covectors_from_topes flattens it.
Faces == ToSet(Flatten(faces))

\* face_enumeration has returned the strata of the topes.
FacesOfTopes ==
    /\ has_returned("topes_from_cocircuits")
    /\ has_returned("face_enumeration")

\* C5 (topes): for the cocircuits of an oriented matroid, the set of topes
\* that topes_from_cocircuits returns is the set of the covectors of
\* covectors_from_cocircuits whose zero-support is the loop set E0; keeping
\* the topes off the frontier loses none.
C5_TopesAreFullCovectors ==
    (/\ has_returned("covectors_from_cocircuits")
     /\ has_returned("topes_from_cocircuits")
     /\ OrientedMatroid) =>
        Topes = {Y \in Covectors : zero_support(Y) = loops(arg)}

\* Both functions have returned for an oriented matroid whose topes are not
\* cocircuits: they are found on the frontier, two or more compositions away
\* from the zero vector, and composing a cocircuit with one tope gives
\* another tope.
C5_Witness ==
    /\ has_returned("covectors_from_cocircuits")
    /\ has_returned("topes_from_cocircuits")
    /\ OrientedMatroid
    /\ Topes # {}
    /\ Topes \cap Cocircuits = {}
    /\ \E T \in Topes : \E X \in Cocircuits : compose(X, T) # T

\* C6 (tope maximality): every tope that topes_from_cocircuits returns is
\* conformally maximal among the covectors of covectors_from_cocircuits: no
\* covector other than the tope itself is above it.
C6_TopesMaximal ==
    (/\ has_returned("covectors_from_cocircuits")
     /\ has_returned("topes_from_cocircuits")) =>
        \A T \in Topes : \A Y \in Covectors : conformal(T, Y) => Y = T

\* Both functions have returned, and some tope is strictly above a covector
\* that is not the zero vector.
C6_Witness ==
    /\ has_returned("covectors_from_cocircuits")
    /\ has_returned("topes_from_cocircuits")
    /\ \E T \in Topes : \E Y \in Covectors :
          ~is_zero(Y) /\ Y # T /\ conformal(Y, T)

\* C7 (the two paths agree): for the cocircuits of an oriented matroid, the
\* flattened face enumeration of the topes (covectors_from_topes) and
\* covectors_from_cocircuits give the same set of sign vectors.
C7_PathsAgree ==
    (/\ has_returned("covectors_from_cocircuits")
     /\ FacesOfTopes
     /\ OrientedMatroid) =>
        Faces = Covectors

\* Both paths have returned for an oriented matroid of rank 2 or more.
C7_Witness ==
    /\ has_returned("covectors_from_cocircuits")
    /\ FacesOfTopes
    /\ OrientedMatroid
    /\ Len(faces) >= 3
    /\ Cardinality(Covectors) > 2 * Len(faces)

\* The topes of the doctests for the matrix A.
tA == << <<-1,-1,-1>>, <<-1,1,-1>>, <<1,1,-1>>, <<1,1,1>>, <<-1,-1,1>>, <<1,-1,1>> >>

\* C8 (scenario): for the cocircuits [--0, -0-, 0-+, ++0, +0+, 0+-],
\* topes_from_cocircuits returns exactly the 6 topes ---, -+-, ++-, +++, --+,
\* +-+, covectors_from_cocircuits returns exactly 13 covectors (the zero
\* vector, the 6 cocircuits, the 6 topes), and the face enumeration of the
\* topes returns exactly 3 strata, of sizes 1, 6 and 6.
C8_Scenario ==
    arg = ccA =>
        /\ has_returned("topes_from_cocircuits") =>
              (Topes = ToSet(tA) /\ Len(tfc.topes) = 6)
        /\ has_returned("covectors_from_cocircuits") =>
              /\ Covectors = {zero_sign_vector(3)} \cup ToSet(ccA) \cup ToSet(tA)
              /\ Len(cfc.covectors) = 13
        /\ FacesOfTopes =>
              /\ Len(faces) = 3
              /\ Len(faces[1]) = 1 /\ Len(faces[2]) = 6 /\ Len(faces[3]) = 6

\* The three functions have returned for the cocircuits of the scenario.
C8_Witness ==
    /\ arg = ccA
    /\ has_returned("covectors_from_cocircuits")
    /\ FacesOfTopes
    /\ Len(cfc.covectors) = 13
    /\ Len(faces) = 3

\* Z is conformally below X and is not X.
strictly_below(Z, X) == conformal(Z, X) /\ Z # X

\* C9 (rank monotonicity): in the face enumeration of the topes, every vector
\* of a stratum is strictly conformally below some vector of the stratum
\* directly above it, and no sign vector is in two strata.
C9_RankMonotone ==
    /\ \A i \in 1..(Len(faces) - 1) : \A Z \in ToSet(faces[i]) :
          \E X \in ToSet(faces[i + 1]) : strictly_below(Z, X)
    /\ \A i, j \in 1..Len(faces) :
          i # j => ToSet(faces[i]) \cap ToSet(faces[j]) = {}

\* The face enumeration of the topes has returned three strata or more, none
\* of them empty.
C9_Witness ==
    /\ FacesOfTopes
    /\ Len(faces) >= 3
    /\ \A i \in 1..Len(faces) : faces[i] # <<>>

\* The stratum is [0] or [].
is_lowest(stratum) ==
    \/ stratum = <<>>
    \/ Len(stratum) = 1 /\ is_zero(stratum[1])

\* C10 (face_enumeration terminates and what it returns): for a nonempty
\* stratum of vectors of length n, face_enumeration takes at most n
\* lower_faces steps; the last element of faces is the stratum it was given,
\* each earlier element is lower_faces of the element after it, no element
\* but the first is [0] or [], and when it returns the first one is.
C10_FaceEnumeration ==
    (pc = "face_enumeration" \/ has_returned("face_enumeration")) =>
        /\ Len(faces) <= n_arg + 1
        /\ Last(faces) = arg
        /\ \A i \in 1..(Len(faces) - 1) :
              /\ ~is_lowest(faces[i + 1])
              /\ faces[i] = lower_faces(faces[i + 1])
        /\ has_returned("face_enumeration") => is_lowest(faces[1])

\* face_enumeration has returned after two lower_faces steps or more.
C10_Witness ==
    /\ has_returned("face_enumeration")
    /\ Len(faces) >= 3
    /\ Last(faces) = arg

\* C11 (round trip): for the cocircuits of an oriented matroid,
\* cocircuits_from_topes of the topes that topes_from_cocircuits returns,
\* the stratum at Python index 1 of the face enumeration of the topes, exists
\* and holds exactly the cocircuits: as a set it is the caller's list.
C11_RoundTrip ==
    (FacesOfTopes /\ OrientedMatroid) =>
        /\ Len(faces) >= 2
        /\ ToSet(cocircuits_from_topes(faces)) = Cocircuits

\* The round trip for an oriented matroid of rank 2 or more: the cocircuits
\* are not the topes, and the face enumeration gives them back.
C11_Witness ==
    /\ FacesOfTopes
    /\ OrientedMatroid
    /\ Len(faces) >= 3
    /\ Topes # Cocircuits
    /\ ToSet(cocircuits_from_topes(faces)) = Cocircuits

\* covectors_from_matrix was called without algorithm and without separate.
closure_asked == cfm.passed = None /\ ~cfm.separate

\* covectors_from_matrix was called without algorithm and with separate, or
\* with one of the two names of the face enumeration.
face_enumeration_asked ==
    \/ cfm.passed = None /\ cfm.separate
    \/ cfm.passed \in {"face_enumeration", "fe"}

\* C12 (dispatch of covectors_from_matrix): without algorithm and without
\* separate the function runs covectors_from_cocircuits only and returns its
\* flat list; without algorithm and with separate, and with algorithm
\* 'face_enumeration' or 'fe', it runs topes_from_cocircuits and the face
\* enumeration of the topes only and returns the strata if separate, else
\* the flattened strata; with any other algorithm it computes nothing, returns
\* nothing and raises ValueError "no algorithm '...'", which no other call
\* raises.
C12_Dispatch ==
    /\ closure_asked =>
          /\ tfc = NoTopesFrame /\ faces = <<>>
          /\ cfm.stage = "returned" =>
                /\ returned = {"covectors_from_cocircuits", "covectors_from_matrix"}
                /\ cfm.flat = cfc.covectors
                /\ cfm.strata = <<>>
    /\ face_enumeration_asked =>
          /\ cfc = NoFrame
          /\ cfm.stage = "returned" =>
                /\ returned = {"topes_from_cocircuits", "face_enumeration",
                               "covectors_from_matrix"}
                /\ Last(faces) = tfc.topes
                /\ IF cfm.separate
                   THEN cfm.strata = faces /\ cfm.flat = <<>>
                   ELSE cfm.flat = Flatten(faces) /\ cfm.strata = <<>>
    /\ ~(closure_asked \/ face_enumeration_asked) =>
          /\ cfm.stage = "not called" /\ arg = <<>> /\ NoResult
          /\ cfm.flat = <<>> /\ cfm.strata = <<>>
          /\ pc \in {"idle", "raised"}
          /\ pc = "raised" =>
                error = [exception |-> "ValueError",
                         message |-> "no algorithm '" \o cfm.passed \o "'",
                         raised_in |-> "covectors_from_matrix"]
    /\ error.raised_in = "covectors_from_matrix" =>
          ~(closure_asked \/ face_enumeration_asked)

\* The fallback has happened: covectors_from_matrix, called without
\* algorithm and with separate, has returned three strata or more.
C12_Witness ==
    /\ cfm.stage = "returned"
    /\ cfm.passed = None
    /\ cfm.separate
    /\ cfm.strata = faces
    /\ Len(faces) >= 3

\* C13 (cocircuits_from_matrix): for the elementary vectors v_1, ..., v_k the
\* returned list has exactly 2k entries; entry i is the sign vector of v_i
\* and entry k + i its negative, the sign vector of -v_i, for i = 1..k,
\* whether or not a sign vector occurs twice; so the list holds -X with
\* every X.
C13_SignsAndNegatives ==
    has_returned("cocircuits_from_matrix") =>
        LET k == Len(evs)
        IN  /\ Len(arg) = 2 * k
            /\ \A i \in 1..k : \A e \in 1..Len(evs[i]) :
                  /\ Len(arg[i]) = Len(evs[i]) /\ Len(arg[k + i]) = Len(evs[i])
                  /\ arg[i][e] = 1 <=> evs[i][e] > 0
                  /\ arg[i][e] = -1 <=> evs[i][e] < 0
                  /\ arg[i][e] = 0 <=> evs[i][e] = 0
                  /\ arg[k + i][e] = 0 - arg[i][e]
            /\ \A X \in Cocircuits : negative(X) \in Cocircuits

\* A returned list in which a sign vector occurs twice and in which some
\* vector had an entry that is not a sign.
C13_Witness ==
    /\ has_returned("cocircuits_from_matrix")
    /\ Len(evs) >= 2
    /\ Len(arg) = 2 * Len(evs)
    /\ \E i, j \in 1..Len(arg) : i # j /\ arg[i] = arg[j]
    /\ \E i \in 1..Len(evs) : \E e \in 1..Len(evs[i]) : evs[i][e] \notin Signs

\* The vectors that one iteration has appended to the frontier new_: the
\* iteration takes the last element off the frontier old and appends.
Pushed(old, new_) == SubSeq(new_, Len(old), Len(new_))

\* One iteration of a worklist loop from frame f to frame g: the frontier
\* keeps what it had below the popped element, and every vector appended to
\* it was not in the discovered list.
PushesNew(f, g) ==
    /\ Len(g.covectors_new) >= Len(f.covectors_new) - 1
    /\ SubSeq(g.covectors_new, 1, Len(f.covectors_new) - 1) = Front(f.covectors_new)
    /\ \A Z \in ToSet(Pushed(f.covectors_new, g.covectors_new)) :
          ~In(Z, f.covectors)

\* C14 (termination of the worklist loops): in covectors_from_cocircuits and
\* in topes_from_cocircuits every vector an iteration pushes on the frontier
\* was not in the discovered list, the discovered list never has more than
\* 3^n entries, and whenever one of the two loops runs its frontier is empty
\* at some later moment.
C14_Terminates ==
    /\ [][/\ (pc = "covectors_from_cocircuits" /\ cfc' # cfc) => PushesNew(cfc, cfc')
          /\ (pc = "topes_from_cocircuits" /\ tfc' # tfc) => PushesNew(tfc, tfc')]_vars
    /\ [](pc = "covectors_from_cocircuits" => Len(cfc.covectors) <= 3^n_arg)
    /\ [](pc = "topes_from_cocircuits" => Len(tfc.covectors) <= 3^n_arg)
    /\ [](pc = "covectors_from_cocircuits" =>
             <>(pc = "covectors_from_cocircuits" /\ cfc.covectors_new = <<>>))
    /\ [](pc = "topes_from_cocircuits" =>
             <>(pc = "topes_from_cocircuits" /\ tfc.covectors_new = <<>>))

\* Both loops have ended, the first one with a discovered list of 3^n
\* entries, all the sign vectors of length n.
C14_Witness ==
    /\ has_returned("covectors_from_cocircuits")
    /\ has_returned("topes_from_cocircuits")
    /\ cfc.covectors_new = <<>> /\ tfc.covectors_new = <<>>
    /\ Len(cfc.covectors) = 3^n_arg
    /\ Len(tfc.covectors) > 1

\* The members of S that topes_from_cocircuits pushes on the frontier: the
\* zero vector it starts from, and every vector whose zero-support is not E0.
expanded(S, E0) == {Y \in S : is_zero(Y) \/ zero_support(Y) # E0}

\* What topes_from_cocircuits discovers, as a set: the least set that holds
\* the zero vector and, with a member Y that is pushed on the frontier, every
\* X o Y for X in C.
RECURSIVE discovered_from(_, _, _)
discovered_from(C, E0, S) ==
    LET T == S \cup {compose(X, Y) : X \in C, Y \in expanded(S, E0)}
    IN  IF T = S THEN S ELSE discovered_from(C, E0, T)

Discovered(C, E0, n) == discovered_from(C, E0, {zero_sign_vector(n)})

\* covectors_from_cocircuits(ccA) as the doctest prints it.
covectors_of_A ==
    << <<0,0,0>>, <<-1,-1,0>>, <<-1,0,-1>>, <<0,-1,1>>, <<1,1,0>>, <<1,0,1>>,
       <<0,1,-1>>, <<-1,-1,-1>>, <<-1,1,-1>>, <<1,1,-1>>, <<1,1,1>>,
       <<-1,-1,1>>, <<1,-1,1>> >>

\* C15 (order of removal): whichever element of the frontier each iteration
\* removes, the last one as the code does, the first one, or any other, the
\* set that covectors_from_cocircuits returns and the set of topes that
\* topes_from_cocircuits returns are the same: they are sets that the
\* cocircuits alone determine, the set of all compositions and the set of
\* the discovered vectors with zero-support E0.
C15_OrderIndependent ==
    /\ has_returned("covectors_from_cocircuits") =>
          Covectors = AllCompositions(Cocircuits, n_arg)
    /\ has_returned("topes_from_cocircuits") =>
          /\ ToSet(tfc.covectors) = Discovered(Cocircuits, loops(arg), n_arg)
          /\ Topes = {Z \in Discovered(Cocircuits, loops(arg), n_arg) :
                         ~is_zero(Z) /\ zero_support(Z) = loops(arg)}

\* covectors_from_cocircuits has returned the 13 covectors of the doctest
\* in another order than the code's removal gives.
C15_Witness ==
    /\ arg = ccA
    /\ has_returned("covectors_from_cocircuits")
    /\ Covectors = ToSet(covectors_of_A)
    /\ Len(cfc.covectors) = 13
    /\ cfc.covectors # covectors_of_A

\* The same-support class of X in the list W, as a set.
same_support(X, W) == {V \in ToSet(W) : support(V) = support(X)}

\* The parallel class of the index e of the support of X in the class K of X:
\* the indices whose sign is, in every member of K, the sign at e, or in
\* every member the opposite sign.
parallel_class(X, K, e) ==
    {f \in support(X) : \/ \A V \in K : V[f] = V[e]
                        \/ \A V \in K : V[f] = 0 - V[e]}

\* X has a lower face by the parallel class of e: X with the signs of the
\* class reversed is in the class of X.
has_face(X, e, W) ==
    LET K == same_support(X, W)
    IN  reverse_signs_in(X, parallel_class(X, K, e)) \in K

\* That lower face: X zeroed on the parallel class of e.
face(X, e, W) ==
    LET D == parallel_class(X, same_support(X, W), e)
    IN  [i \in 1..Len(X) |-> IF i \in D THEN 0 ELSE X[i]]

\* The lower faces of the list W, as a set.
lower_face_set(W) ==
    UNION {{face(X, e, W) : e \in {d \in support(X) : has_face(X, d, W)}} :
              X \in ToSet(W)}

\* The list W_out holds the lower faces of W and nothing else, each of them
\* once.
is_lower_faces(W_out, W) ==
    /\ ToSet(W_out) = lower_face_set(W)
    /\ \A i, j \in 1..Len(W_out) : i # j => W_out[i] # W_out[j]

\* C16 (lower_faces): the list that lower_faces returns for W, in a direct
\* call and in the step of face_enumeration that inserted the first stratum,
\* holds a sign vector Z if and only if some X of W, with a parallel class D
\* of the same-support class of X on which X is nonzero, has its reverse on
\* D in that class and gives Z when zeroed on D; and it holds each such Z
\* once.
C16_LowerFaces ==
    /\ has_returned("lower_faces") => is_lower_faces(W_, arg)
    /\ Len(faces) >= 2 => is_lower_faces(faces[1], faces[2])

\* lower_faces has returned a list in which some Z is given by two vectors
\* of W, for a W in which some X has a parallel class on which its reverse
\* is not in the class of X.
C16_Witness ==
    /\ has_returned("lower_faces")
    /\ W_ # <<>>
    /\ \E X1, X2 \in ToSet(arg) :
          /\ X1 # X2
          /\ \E e1 \in support(X1) : \E e2 \in support(X2) :
                /\ has_face(X1, e1, arg) /\ has_face(X2, e2, arg)
                /\ face(X1, e1, arg) = face(X2, e2, arg)
                /\ In(face(X1, e1, arg), W_)
    /\ \E X \in ToSet(arg) : \E e \in support(X) :
          reverse_signs_in(X, parallel_class(X, same_support(X, arg), e))
             \notin same_support(X, arg)

\* No value is at two positions of the list L.
no_duplicates(L) == \A i, j \in 1..Len(L) : i # j => L[i] # L[j]

\* The list L is the beginning of the list M.
is_prefix(L, M) == Len(L) <= Len(M) /\ SubSeq(M, 1, Len(L)) = L

\* The frame f of a worklist loop is well formed: no vector is twice in the
\* discovered list or twice on the frontier, and the frontier is in the
\* discovered list.
well_formed(f) ==
    /\ no_duplicates(f.covectors)
    /\ no_duplicates(f.covectors_new)
    /\ ToSet(f.covectors_new) \subseteq ToSet(f.covectors)

\* One iteration from frame f to frame g: the discovered list only grows at
\* its end, the popped vector is not on the frontier again, and what is
\* pushed was not discovered before, so that no vector is pushed twice.
pushes_once(f, g) ==
    /\ is_prefix(f.covectors, g.covectors)
    /\ ~In(Last(f.covectors_new), g.covectors_new)
    /\ PushesNew(f, g)

\* C17 (invariant of the closure loops): at every moment of
\* covectors_from_cocircuits and of topes_from_cocircuits the discovered list
\* holds no vector twice, the frontier and the topes are in the discovered
\* list, no tope is on the frontier, and a vector is pushed on the frontier
\* at most once: it is pushed when it is discovered and never again.
C17_LoopInvariant ==
    /\ [](well_formed(cfc) /\ well_formed(tfc))
    /\ [](/\ no_duplicates(tfc.topes)
          /\ ToSet(tfc.topes) \subseteq ToSet(tfc.covectors)
          /\ ToSet(tfc.topes) \cap ToSet(tfc.covectors_new) = {})
    /\ [][/\ (pc = "covectors_from_cocircuits" /\ cfc' # cfc) => pushes_once(cfc, cfc')
          /\ (pc = "topes_from_cocircuits" /\ tfc' # tfc) =>
                (pushes_once(tfc, tfc') /\ is_prefix(tfc.topes, tfc'.topes))]_vars

\* topes_from_cocircuits is in its loop with topes recorded and two vectors
\* or more on the frontier, after covectors_from_cocircuits has returned a
\* list of 9 vectors or more.
C17_Witness ==
    /\ pc = "topes_from_cocircuits"
    /\ tfc.topes # <<>>
    /\ Len(tfc.covectors_new) >= 2
    /\ "covectors_from_cocircuits" \in returned
    /\ Len(cfc.covectors) >= 9

====
